---- MODULE Spec2Model ----
(***************************************************************************)
(* Model of the Prusa firmware menu engine (Firmware/menu.cpp), of the     *)
(* wrap-around safe timer (Firmware/Timer.h) and of the initialisation of  *)
(* the persistent memory (Firmware/eeprom.cpp).                            *)
(*                                                                         *)
(* Spec       the navigation interface of menu.cpp driven by any sequence  *)
(*            of calls: menu_goto, menu_submenu, menu_submenu_no_reset,    *)
(*            menu_back(n), menu_back_no_reset, with the encoder interrupt *)
(*            and a screen writing its record into menu_data in between.   *)
(* SpecMenu   the render loop: a list screen calling item primitives row   *)
(*            by row between menu_start and menu_end, the numeric editor   *)
(*            screen, the input sampling, and callers of menu_goto and     *)
(*            menu_back between the frames.                                *)
(* SpecTimer  one Timer<T> object over a millisecond counter of TimerBits  *)
(*            bits: start, stop, expired(msPeriod) and the counter ticking.*)
(* SpecPoll   the same timer used by a caller that arms it and polls it    *)
(*            with one period, at the rate the comment of expired() asks.  *)
(* SpecFull   the render loop and the editor over a stack built by         *)
(*            menu_submenu calls, up to the capacity of the stack.         *)
(* SpecEeprom eeprom_init over a memory that is erased or partly written.  *)
(* SpecIrq    menu_goto statement by statement, with the input-sampling    *)
(*            interrupt served whenever the interrupt flag is set.         *)
(***************************************************************************)
EXTENDS Integers, Sequences, FiniteSets, TLC

\* ------------------------------------------------------------------------
\* Program constants and model bounds
\* ------------------------------------------------------------------------
MENU_DEPTH_MAX == 6

\* number of interface calls in one run of Spec
MaxOps == 7

\* largest nLevel passed to menu_back
MaxLevels == 2

\* item primitives a screen calls in one pass over its items
MaxItems == 2
\* frames, input events and navigation calls in one run of SpecMenu
MaxMenuOps == 4
\* upper bound max_val of the edited values (the lower bound min_val is 0)
MaxEdit == 2
\* text lines of the display
LCD_HEIGHT == 4

\* sheets in the EEPROM (the element count of Sheets::s)
MaxSheets == 2
\* bytes of a sheet name (the element count of Sheet::name)
NameLen == 3
\* EEPROM writes by the rest of the firmware in one run of SpecEeprom
MaxWrites == 2

\* width of the millisecond counter type T of Timer<T>, in bits
TimerBits == 3
Modulus == 2 ^ TimerBits

\* menu_func_t values: the null pointer and the screen functions of the callers
NoMenu == "null"
UserScreens == {"main", "settings"}
\* encoder positions the input sampling and the callers produce in Spec; the
\* navigation functions copy the position and never compute with it
CursorVals == {0, 1}

\* An int32_t passed through the parameter "const uint32_t encoder" and
\* assigned to the int32_t lcd_encoder comes back unchanged (the conversions
\* are modulo 2^32 in both directions), so goto assigns the argument as it is.
\* uint8_t arithmetic
ToUint8(x) == x % 256

\* menu_data seen as menu_data_edit_t; all bytes zero after memset
NullPtr == "null"
ZeroData ==
    [editLabel |-> NullPtr, editValue |-> NullPtr, minEditValue |-> 0, maxEditValue |-> 0]
\* a record some screen has stored in menu_data (not all bytes zero)
ScreenData ==
    [editLabel |-> "state", editValue |-> "state", minEditValue |-> 0, maxEditValue |-> 1]

ZeroFrame == [menu |-> NoMenu, position |-> 0]

VARIABLES
    menu_menu,        \* current screen function
    lcd_encoder,      \* int32_t cursor, shared with the input sampling
    menu_data,        \* scratch union
    menu_stack,       \* menu_record_t menu_stack[MENU_DEPTH_MAX]
    menu_depth,       \* uint8_t
    quick_feedback,   \* lcd_quick_feedback() was called by the last operation
    last,             \* the last operation and its arguments
    pre,              \* navigation state before the last operation
    nops,             \* operations performed in this run
    m_isRunning,      \* Timer::m_isRunning
    m_started,        \* Timer::m_started
    millis,           \* the millisecond counter read by millis(), as a T
    hist,             \* history of the timer since its last start()
    pc,               \* where the render loop is: "idle", "body", "callback"
    menu_line,        \* uint8_t
    menu_item,        \* uint8_t
    menu_row,         \* uint8_t
    menu_top,         \* uint8_t
    menu_clicked,     \* uint8_t, the click latched by menu_start
    lcd_draw_update,  \* 0, 1 or 2
    lcd_button_pressed,
    lcd_update_enabled,
    beeper_feedback,  \* lcd_beeper_quick_feedback() was called by the last operation
    beeper_tone,      \* _tone(BEEPER, 0) was sounded by the last operation
    enqueued,         \* enquecommand_P() was called by the last operation
    click_consumed,   \* lcd_consume_click() was called by the last item primitive
    mem,              \* the values behind the pointers passed to the edit items
    session,          \* the edit-item activation that entered the editor shown
    ncalls,           \* item primitives called so far in this pass
    eeprom,           \* the EEPROM fields eeprom_init looks at
    cpu               \* interrupt flag, and where a call of menu_goto stands

navvars == <<menu_menu, lcd_encoder, menu_data, menu_stack, menu_depth>>
timervars == <<m_isRunning, m_started, millis, hist>>
framevars == <<pc, menu_line, menu_item, menu_row, menu_top, menu_clicked,
               lcd_draw_update, lcd_button_pressed, lcd_update_enabled,
               beeper_feedback, beeper_tone, enqueued, click_consumed, mem, session,
          ncalls>>
vars == <<menu_menu, lcd_encoder, menu_data, menu_stack, menu_depth,
          quick_feedback, last, pre, nops, m_isRunning, m_started, millis, hist,
          pc, menu_line, menu_item, menu_row, menu_top, menu_clicked,
          lcd_draw_update, lcd_button_pressed, lcd_update_enabled,
          beeper_feedback, beeper_tone, enqueued, click_consumed, mem, session,
          ncalls, eeprom, cpu>>

\* the variables the edit items point to: an int16_t and a uint8_t
Targets == {"val16", "val8"}
NoSession == [active |-> FALSE, parent |-> NoMenu, cursor |-> 0, depth |-> 0, pval |-> NullPtr]

\* the globals of the navigation code as one value; quick_feedback says
\* whether lcd_quick_feedback() has been called since the operation began
Snapshot ==
    [menu_menu |-> menu_menu, lcd_encoder |-> lcd_encoder, menu_data |-> menu_data,
     menu_stack |-> menu_stack, menu_depth |-> menu_depth, mem |-> mem,
     quick_feedback |-> FALSE]

\* the globals take the values of s
Assign(s) ==
    /\ menu_menu' = s.menu_menu
    /\ lcd_encoder' = s.lcd_encoder
    /\ menu_data' = s.menu_data
    /\ menu_stack' = s.menu_stack
    /\ menu_depth' = s.menu_depth
    /\ quick_feedback' = s.quick_feedback

Op(name, menu, encoder, feedback, reset, n) ==
    [op |-> name, menu |-> menu, encoder |-> encoder, feedback |-> feedback,
     reset |-> reset, n |-> n]

NoOp == Op("none", NoMenu, 0, FALSE, FALSE, 0)

\* the EEPROM fields read by eeprom_init: counters of one byte, counters of
\* one word, and the names of the sheets
ByteFields == {"EEPROM_POWER_COUNT", "EEPROM_CRASH_COUNT_X", "EEPROM_CRASH_COUNT_Y",
               "EEPROM_FERROR_COUNT", "EEPROM_MMU_FAIL", "EEPROM_MMU_LOAD_FAIL",
               "active_sheet"}
WordFields == {"EEPROM_POWER_COUNT_TOT", "EEPROM_CRASH_COUNT_X_TOT",
               "EEPROM_CRASH_COUNT_Y_TOT", "EEPROM_FERROR_COUNT_TOT",
               "EEPROM_MMU_FAIL_TOT", "EEPROM_MMU_LOAD_FAIL_TOT"}
SheetIndex == 0..(MaxSheets - 1)
NameIndex == 0..(NameLen - 1)

\* an EEPROM that was never written: every bit set
Erased ==
    [byte |-> [f \in ByteFields |-> 255],
     word |-> [f \in WordFields |-> 65535],
     name |-> [i \in SheetIndex |-> [j \in NameIndex |-> 255]]]

\* no call of menu_goto is under way and interrupts are enabled
NoGoto == [I |-> TRUE, at |-> "out", menu |-> NoMenu, encoder |-> 0,
           feedback |-> FALSE, reset |-> FALSE, entry |-> 0]

\* history of one timer cycle: the true results of expired() since start();
\* and, for a caller that polls with one period, that period, the ticks since
\* start() and the ticks since start() or the previous expired() (both
\* counted up to Modulus, which stands for "Modulus or more")
NoHist == [trues |-> 0, period |-> 0, ticks |-> 0, gap |-> 0]

Init ==
    /\ menu_menu = NoMenu
    /\ lcd_encoder = 0
    /\ menu_data = ZeroData
    /\ menu_stack = [i \in 0..(MENU_DEPTH_MAX - 1) |-> ZeroFrame]
    /\ menu_depth = 0
    /\ quick_feedback = FALSE
    /\ last = NoOp
    /\ nops = 0
    /\ m_isRunning = FALSE
    /\ m_started = 0
    /\ millis = 0
    /\ hist = NoHist
    /\ pc = "idle"
    /\ menu_line = 0
    /\ menu_item = 0
    /\ menu_row = 0
    /\ menu_top = 0
    /\ menu_clicked = FALSE
    /\ lcd_draw_update = 2
    /\ lcd_button_pressed = FALSE
    /\ lcd_update_enabled = TRUE
    /\ beeper_feedback = FALSE
    /\ beeper_tone = FALSE
    /\ enqueued = FALSE
    /\ click_consumed = FALSE
    /\ mem = [a \in Targets |-> 1]
    /\ session = NoSession
    /\ ncalls = 0
    /\ eeprom = Erased
    /\ cpu = NoGoto
    /\ pre = Snapshot

\* every operation of a run of Spec: budget, record of the call and of the
\* state before it
Call(o) ==
    /\ nops < MaxOps
    /\ nops' = nops + 1
    /\ last' = o
    /\ pre' = Snapshot
    /\ UNCHANGED <<timervars, eeprom, cpu>>
    /\ UNCHANGED framevars

\* ------------------------------------------------------------------------
\* menu.cpp: navigation. Each function maps the globals s before the call
\* to the globals after it.
\* ------------------------------------------------------------------------

\* mutant: menu_goto without the test of the current screen
goto_without_test(s, menu, encoder, feedback, reset_menu_state) ==
    [s EXCEPT !.menu_menu = menu,
              !.lcd_encoder = encoder,
              !.menu_data = IF reset_menu_state THEN ZeroData ELSE @,
              !.quick_feedback = @ \/ feedback]

\* menu_goto(menu, encoder, feedback, reset_menu_state)
goto(s, menu, encoder, feedback, reset_menu_state) ==
    IF s.menu_menu # menu
    THEN [s EXCEPT !.menu_menu = menu,
                   !.lcd_encoder = encoder,
                   !.menu_data = IF reset_menu_state THEN ZeroData ELSE @,
                   !.quick_feedback = @ \/ feedback]
    ELSE s

menu_goto ==
    \E menu \in UserScreens, encoder \in CursorVals, feedback \in BOOLEAN,
       reset_menu_state \in BOOLEAN :
        /\ Call(Op("goto", menu, encoder, feedback, reset_menu_state, 0))
        /\ Assign(goto(Snapshot, menu, encoder, feedback, reset_menu_state))

\* mutant: the push counts two levels
push_two_levels(s) ==
    [s EXCEPT !.menu_stack[s.menu_depth] =
                  [menu |-> s.menu_menu, position |-> s.lcd_encoder],
              !.menu_depth = ToUint8(@ + 2)]

\* the two statements that push {menu_menu, lcd_encoder}
push(s) ==
    [s EXCEPT !.menu_stack[s.menu_depth] =
                  [menu |-> s.menu_menu, position |-> s.lcd_encoder],
              !.menu_depth = ToUint8(@ + 1)]

\* mutant: the capacity test off by one (<= instead of <)
submenu_off_by_one(s, sub, reset_menu_state) ==
    IF s.menu_depth <= MENU_DEPTH_MAX
    THEN goto(push(s), sub, 0, TRUE, reset_menu_state)
    ELSE s

\* menu_submenu (reset_menu_state = TRUE) and menu_submenu_no_reset (FALSE)
submenu(s, sub, reset_menu_state) ==
    IF s.menu_depth < MENU_DEPTH_MAX
    THEN goto(push(s), sub, 0, TRUE, reset_menu_state)
    ELSE s

menu_submenu ==
    \E sub \in UserScreens :
        /\ Call(Op("submenu", sub, 0, TRUE, TRUE, 0))
        /\ Assign(submenu(Snapshot, sub, TRUE))

menu_submenu_no_reset ==
    \E sub \in UserScreens :
        /\ Call(Op("submenu_no_reset", sub, 0, TRUE, FALSE, 0))
        /\ Assign(submenu(Snapshot, sub, FALSE))

\* what menu_stack[d] reads; d = MENU_DEPTH_MAX is one element past the
\* array: the read yields whatever lies behind it
StackReads(s, d) ==
    IF d < MENU_DEPTH_MAX
    THEN {s.menu_stack[d]}
    ELSE [menu : {NoMenu} \cup UserScreens, position : CursorVals]

\* mutant: menu_back pops one level whatever nLevel is
BackDepth_one_level(s, nLevel) == IF s.menu_depth > 0 THEN s.menu_depth - 1 ELSE 0

BackDepth(s, nLevel) == IF s.menu_depth > nLevel THEN s.menu_depth - nLevel ELSE 0

\* menu_back(nLevel): the states it can end in (one, unless the read is
\* past the array)
back(s, nLevel) ==
    LET t == [s EXCEPT !.menu_depth = BackDepth(s, nLevel)] IN
    {goto(t, f.menu, f.position, TRUE, TRUE) : f \in StackReads(t, t.menu_depth)}

menu_back ==
    \E nLevel \in 0..MaxLevels :
        /\ Call(Op("back", NoMenu, 0, TRUE, TRUE, nLevel))
        /\ \E t \in back(Snapshot, nLevel) : Assign(t)

back_no_reset(s) ==
    IF s.menu_depth > 0
    THEN LET t == [s EXCEPT !.menu_depth = @ - 1] IN
         goto(t, t.menu_stack[t.menu_depth].menu, t.menu_stack[t.menu_depth].position,
              TRUE, FALSE)
    ELSE s

menu_back_no_reset ==
    /\ Call(Op("back_no_reset", NoMenu, 0, TRUE, FALSE, 1))
    /\ Assign(back_no_reset(Snapshot))

\* ------------------------------------------------------------------------
\* Environment of the navigation interface
\* ------------------------------------------------------------------------

\* the input sampling moves the encoder position
lcd_encoder_isr ==
    \E e \in CursorVals :
        /\ e # lcd_encoder
        /\ Call(Op("encoder", NoMenu, e, FALSE, FALSE, 0))
        /\ Assign([Snapshot EXCEPT !.lcd_encoder = e])

\* the current screen stores its record in the scratch union
menu_data_write ==
    /\ menu_data # ScreenData
    /\ Call(Op("data", NoMenu, 0, FALSE, FALSE, 0))
    /\ Assign([Snapshot EXCEPT !.menu_data = ScreenData])

Next ==
    \/ menu_goto
    \/ menu_submenu
    \/ menu_submenu_no_reset
    \/ menu_back
    \/ menu_back_no_reset
    \/ lcd_encoder_isr
    \/ menu_data_write

Spec == Init /\ [][Next]_vars

\* ------------------------------------------------------------------------
\* menu.cpp: the render pass, the item primitives and the numeric editor
\* ------------------------------------------------------------------------
ToInt16(x) == ((x + 32768) % 65536) - 32768

\* positions the input sampling leaves the encoder at in SpecMenu
EncoderVals == (-1)..(MaxEdit + 1)

\* _menu_edit_P<int16_t*> and _menu_edit_P<uint8_t*>
Editors == {"edit_int16", "edit_uint8"}

\* the arguments of the calls menu_item_edit_P<T>(str, pval, min_val, max_val)
EditItems ==
    {[screen |-> "edit_int16", str |-> "label16", pval |-> "val16",
      min_val |-> 0, max_val |-> MaxEdit],
     [screen |-> "edit_uint8", str |-> "label8", pval |-> "val8",
      min_val |-> 0, max_val |-> MaxEdit],
     [screen |-> "edit_uint8", str |-> "factor", pval |-> "val8",
      min_val |-> 1, max_val |-> MaxEdit]}

\* *((T)ptr) = x for the editor screen's T
Store(screen, x) == IF screen = "edit_uint8" THEN ToUint8(x) ELSE ToInt16(x)

MenuOp(name, arg, ret) ==
    [op |-> name, arg |-> arg, ret |-> ret, slot |-> menu_item, v |-> lcd_encoder,
     line |-> menu_line, clicked |-> menu_clicked, enabled |-> lcd_update_enabled]

ItemOps == {"dummy", "text", "submenu_item", "back_item", "function", "function_par",
            "gcode", "edit_item"}

\* a step between two render passes
Idle(o) ==
    /\ pc = "idle"
    /\ last' = o
    /\ pre' = Snapshot
    /\ UNCHANGED <<timervars, eeprom, cpu>>

\* an operation between two render passes
Between(o) ==
    /\ Idle(o)
    /\ nops < MaxMenuOps
    /\ nops' = nops + 1

\* a call of an item primitive by the screen function
InBody(o) ==
    /\ pc = "body"
    /\ ncalls < MaxItems
    /\ ncalls' = ncalls + 1
    /\ last' = o
    /\ pre' = Snapshot
    /\ UNCHANGED <<nops, timervars, eeprom, cpu>>

\* the editor session ends when another screen becomes current
KeepSession(t) == session' = IF t.menu_menu = menu_menu THEN session ELSE NoSession

Quiet ==
    /\ beeper_feedback' = FALSE /\ beeper_tone' = FALSE /\ enqueued' = FALSE
    /\ click_consumed' = FALSE

\* callers of menu_goto and menu_back between two passes
call_menu_goto ==
    \E menu \in UserScreens :
        LET t == goto(Snapshot, menu, 0, TRUE, TRUE) IN
        /\ Between(Op("goto", menu, 0, TRUE, TRUE, 0))
        /\ Assign(t) /\ KeepSession(t) /\ Quiet
        /\ UNCHANGED <<pc, menu_line, menu_item, menu_row, menu_top, menu_clicked,
                       lcd_draw_update, lcd_button_pressed, lcd_update_enabled, mem, ncalls>>

call_menu_back ==
    /\ Between([op |-> "back", n |-> 1, prev |-> last, before |-> pre])
    /\ \E t \in back(Snapshot, 1) : Assign(t) /\ KeepSession(t)
    /\ Quiet
    /\ UNCHANGED <<pc, menu_line, menu_item, menu_row, menu_top, menu_clicked,
                   lcd_draw_update, lcd_button_pressed, lcd_update_enabled, mem, ncalls>>

\* a caller of menu_submenu between two passes
PushCall(sub) ==
    LET t == submenu(Snapshot, sub, TRUE) IN
        /\ Idle(Op("submenu", sub, 0, TRUE, TRUE, 0))
        /\ Assign(t) /\ KeepSession(t) /\ Quiet
        /\ UNCHANGED <<pc, menu_line, menu_item, menu_row, menu_top, menu_clicked,
                       lcd_draw_update, lcd_button_pressed, lcd_update_enabled, mem,
                       ncalls>>

\* a screen is opened over the editor by a call of menu_submenu
call_menu_submenu ==
    \E sub \in UserScreens :
        /\ menu_menu \in Editors
        /\ nops < MaxMenuOps
        /\ nops' = nops + 1
        /\ PushCall(sub)

\* callers open screen over screen before the first frame of the run
build_stack ==
    \E sub \in UserScreens :
        /\ nops = 0
        /\ sub # menu_menu
        /\ UNCHANGED nops
        /\ PushCall(sub)

\* the input sampling moves the encoder
input_encoder ==
    \E e \in EncoderVals :
        /\ e # lcd_encoder
        /\ Between(Op("encoder", NoMenu, e, FALSE, FALSE, 0))
        /\ Assign([Snapshot EXCEPT !.lcd_encoder = e])
        /\ Quiet
        /\ UNCHANGED <<pc, menu_line, menu_item, menu_row, menu_top, menu_clicked,
                       lcd_draw_update, lcd_button_pressed, lcd_update_enabled, mem,
                       session, ncalls>>

\* a caller of lcd_update_enable switches the display updates off or on
lcd_update_enable ==
    \E enabled \in BOOLEAN :
        /\ enabled # lcd_update_enabled
        /\ Between(Op("update_enable", NoMenu, 0, enabled, FALSE, 0))
        /\ lcd_update_enabled' = enabled
        /\ Assign(Snapshot) /\ Quiet
        /\ UNCHANGED <<pc, menu_line, menu_item, menu_row, menu_top, menu_clicked,
                       lcd_draw_update, lcd_button_pressed, mem, session, ncalls>>

\* the display loop has redrawn and clears the redraw request
lcd_update_done ==
    /\ lcd_draw_update # 0
    /\ Idle(Op("redrawn", NoMenu, 0, FALSE, FALSE, 0))
    /\ lcd_draw_update' = 0
    /\ UNCHANGED nops
    /\ Assign(Snapshot) /\ Quiet
    /\ UNCHANGED <<pc, menu_line, menu_item, menu_row, menu_top, menu_clicked,
                   lcd_button_pressed, lcd_update_enabled, mem, session, ncalls>>

\* menu_start(); clicked is the value of LCD_CLICKED
menu_start(clicked) ==
    LET e1 == IF lcd_encoder > 32768 THEN 0 ELSE lcd_encoder
        e2 == IF e1 < 0 THEN 0 ELSE e1
        top == IF e2 < menu_top THEN ToUint8(e2) ELSE menu_top
    IN  /\ lcd_encoder' = e2
        /\ beeper_tone' = (e1 < 0)
        /\ menu_top' = top
        /\ menu_line' = top
        /\ menu_clicked' = clicked

\* a list screen begins: menu_start, then the first pass over its items
MENU_BEGIN ==
    \E clicked \in BOOLEAN :
        /\ menu_menu \in UserScreens
        /\ Between(MenuOp("menu_start", clicked, 0))
        /\ menu_start(clicked)
        /\ menu_row' = 0
        /\ menu_item' = 0
        /\ ncalls' = 0
        /\ pc' = "body"
        /\ beeper_feedback' = FALSE /\ enqueued' = FALSE /\ click_consumed' = FALSE /\ quick_feedback' = FALSE
        /\ UNCHANGED <<menu_menu, menu_data, menu_stack, menu_depth, lcd_draw_update,
                       lcd_button_pressed, lcd_update_enabled, mem, session>>

\* the test of the item primitives: this item is on the line being handled,
\* a click is latched and the cursor is on it
Activated == menu_item = menu_line /\ menu_clicked /\ lcd_encoder = menu_item

\* menu_item_ret()
menu_item_ret ==
    /\ beeper_feedback' = TRUE
    /\ lcd_draw_update' = 2
    /\ lcd_button_pressed' = FALSE

\* mutant: the slot is not counted
NextItem_forgotten == menu_item' = menu_item

\* menu_item++
NextItem == menu_item' = ToUint8(menu_item + 1)

\* an item primitive that is not activated: menu_item++; return 0
Skipped ==
    /\ NextItem
    /\ Assign(Snapshot) /\ Quiet
    /\ UNCHANGED <<pc, menu_line, menu_row, menu_top, menu_clicked, lcd_draw_update,
                   lcd_button_pressed, lcd_update_enabled, mem, session>>

\* an activated item primitive returns 1 from inside its if: menu_item is
\* left alone, and the screen function returns
Returned1 ==
    /\ menu_item_ret
    /\ pc' = "idle"
    /\ beeper_tone' = FALSE
    /\ UNCHANGED <<menu_item, menu_line, menu_row, menu_top>>

Ret(act) == IF act THEN 1 ELSE 0

menu_item_dummy ==
    /\ InBody(MenuOp("dummy", NullPtr, 0))
    /\ Skipped

menu_item_text_P ==
    /\ InBody(MenuOp("text", NullPtr, Ret(Activated)))
    /\ IF Activated
       THEN /\ Returned1
            /\ Assign(Snapshot)
            /\ enqueued' = FALSE
            /\ click_consumed' = FALSE
            /\ UNCHANGED <<menu_clicked, lcd_update_enabled, mem, session>>
       ELSE Skipped

\* mutant: the submenu item enters its screen without resetting the scratch
item_submenu_no_reset(s, sub) == submenu(s, sub, FALSE)

\* menu_submenu(submenu), as menu_item_submenu_P calls it
item_submenu(s, sub) == submenu(s, sub, TRUE)

menu_item_submenu_P ==
    \E sub \in UserScreens :
        /\ InBody(MenuOp("submenu_item", sub, Ret(Activated)))
        /\ IF Activated
           THEN LET t == item_submenu(Snapshot, sub) IN
                /\ Assign(t) /\ KeepSession(t)
                /\ Returned1
                /\ enqueued' = FALSE
                /\ click_consumed' = FALSE
                /\ UNCHANGED <<menu_clicked, lcd_update_enabled, mem>>
           ELSE Skipped

menu_item_back_P ==
    /\ InBody(MenuOp("back_item", NullPtr, Ret(Activated)))
    /\ IF Activated
       THEN /\ \E t \in back(Snapshot, 1) : Assign(t) /\ KeepSession(t)
            /\ Returned1
            /\ enqueued' = FALSE
            /\ click_consumed' = FALSE
            /\ UNCHANGED <<menu_clicked, lcd_update_enabled, mem>>
       ELSE Skipped

\* mutant: display updates stay enabled while the callback runs
UpdateEnabledInCallback_on == TRUE

\* lcd_update_enabled = 0; before func()
UpdateEnabledInCallback == FALSE

\* the activated function items: with a callback the call is a step of its
\* own, during which lcd_update_enabled is 0
CallFunction(func) ==
    /\ menu_clicked' = FALSE
    /\ click_consumed' = TRUE
    /\ Assign(Snapshot)
    /\ enqueued' = FALSE
    /\ UNCHANGED <<mem, session>>
    /\ IF func # NullPtr
       THEN /\ lcd_update_enabled' = UpdateEnabledInCallback
            /\ pc' = "callback"
            /\ beeper_feedback' = FALSE /\ beeper_tone' = FALSE
            /\ UNCHANGED <<menu_item, menu_line, menu_row, menu_top, lcd_draw_update,
                           lcd_button_pressed>>
       ELSE /\ lcd_update_enabled' = TRUE
            /\ Returned1

menu_item_function_P ==
    \E func \in {NullPtr, "func"} :
        /\ InBody(MenuOp("function", func, Ret(Activated)))
        /\ IF Activated THEN CallFunction(func) ELSE Skipped

menu_item_function_P_par ==
    \E func \in {NullPtr, "func"} :
        /\ InBody(MenuOp("function_par", func, Ret(Activated)))
        /\ IF Activated THEN CallFunction(func) ELSE Skipped

\* func() returns: lcd_update_enabled = 1; return menu_item_ret();
function_returns ==
    /\ pc = "callback"
    /\ lcd_update_enabled' = TRUE
    /\ Returned1
    /\ Assign(Snapshot)
    /\ enqueued' = FALSE
    /\ UNCHANGED <<menu_clicked, click_consumed, mem, session, ncalls, last, pre, nops,
                   timervars, eeprom, cpu>>

menu_item_gcode_P ==
    \E str_gcode \in {NullPtr, "gcode"} :
        /\ InBody(MenuOp("gcode", str_gcode, Ret(Activated)))
        /\ IF Activated
           THEN /\ enqueued' = (str_gcode # NullPtr)
                /\ click_consumed' = FALSE
                /\ Returned1
                /\ Assign(Snapshot)
                /\ UNCHANGED <<menu_clicked, lcd_update_enabled, mem, session>>
           ELSE Skipped

\* nothing is printed
NoRow == [drawn |-> FALSE, chr |-> " ", str |-> NullPtr, off |-> FALSE, val |-> 0]

\* menu_draw_P<uint8_t*> prints " [off]" in place of the number when
\* val <= _md->minEditValue, read from the scratch; menu_draw_P<int16_t*>
\* always prints the number
DrawOff(screen, val, data) == screen = "edit_uint8" /\ val <= data.minEditValue

\* menu_draw_P<T>(chr, str, val) with the scratch holding data: the row it
\* prints (the padding follows from str and val and is left out)
menu_draw_P(screen, chr, str, val, data) ==
    [drawn |-> TRUE, chr |-> chr, str |-> str,
     off |-> DrawOff(screen, val, data),
     val |-> IF DrawOff(screen, val, data) THEN 0 ELSE ToInt16(val)]

\* the row menu_item_edit_P prints for the item it
EditRow(it) ==
    IF menu_item = menu_line /\ lcd_draw_update # 0
    THEN menu_draw_P(it.screen, IF lcd_encoder = menu_item THEN ">" ELSE " ",
                     it.str, mem[it.pval], menu_data)
    ELSE NoRow

EditOp(it) ==
    [op |-> "edit_item", arg |-> it, ret |-> Ret(Activated), slot |-> menu_item,
     v |-> lcd_encoder, line |-> menu_line, clicked |-> menu_clicked,
     enabled |-> lcd_update_enabled, row |-> EditRow(it)]

menu_item_edit_P ==
    \E it \in EditItems :
        /\ InBody(EditOp(it))
        /\ IF Activated
           THEN LET t == submenu(Snapshot, it.screen, FALSE)
                    u == [t EXCEPT !.menu_data =
                                       [editLabel |-> it.str, editValue |-> it.pval,
                                        minEditValue |-> it.min_val,
                                        maxEditValue |-> it.max_val],
                                   !.lcd_encoder = mem[it.pval]]
                IN  /\ Assign(u)
                    /\ session' = IF t.menu_menu = it.screen /\ menu_menu # it.screen
                                  THEN [active |-> TRUE, parent |-> menu_menu,
                                        cursor |-> lcd_encoder, depth |-> menu_depth,
                                        pval |-> it.pval]
                                  ELSE session
                    /\ Returned1
                    /\ enqueued' = FALSE
                    /\ click_consumed' = FALSE
                    /\ UNCHANGED <<menu_clicked, lcd_update_enabled, mem>>
           ELSE Skipped

\* menu_end(), as the values it leaves
menu_end ==
    LET overrun == lcd_encoder >= menu_item
        e == IF overrun THEN menu_item - 1 ELSE lcd_encoder
        scroll == ToUint8(e) >= menu_top + LCD_HEIGHT
        top == IF scroll THEN ToUint8(e - LCD_HEIGHT + 1) ELSE menu_top
    IN  [lcd_encoder |-> e,
         tone |-> overrun,
         menu_top |-> top,
         lcd_draw_update |-> IF scroll THEN 1 ELSE lcd_draw_update,
         menu_line |-> IF scroll THEN ToUint8(top - 1) ELSE menu_line,
         menu_row |-> IF scroll THEN 255 ELSE menu_row]

\* the end of a pass over the items: menu_end, then the next row
MENU_END ==
    LET r == menu_end
        row == ToUint8(r.menu_row + 1)
    IN  /\ pc = "body"
        /\ last' = MenuOp("menu_end", NullPtr, 0)
        /\ pre' = Snapshot
        /\ lcd_encoder' = r.lcd_encoder
        /\ beeper_tone' = r.tone
        /\ menu_top' = r.menu_top
        /\ lcd_draw_update' = r.lcd_draw_update
        /\ menu_row' = row
        /\ menu_line' = ToUint8(r.menu_line + 1)
        /\ IF row < LCD_HEIGHT
           THEN menu_item' = 0 /\ ncalls' = 0 /\ pc' = "body"
           ELSE UNCHANGED <<menu_item, ncalls>> /\ pc' = "idle"
        /\ beeper_feedback' = FALSE /\ enqueued' = FALSE /\ click_consumed' = FALSE /\ quick_feedback' = FALSE
        /\ UNCHANGED <<menu_menu, menu_data, menu_stack, menu_depth, menu_clicked,
                       lcd_button_pressed, lcd_update_enabled, mem, session, nops,
                       timervars, eeprom, cpu>>

\* the clamp of _menu_edit_P
Clamp(x, lo, hi) ==
    LET y == IF x < lo THEN lo ELSE x IN IF y > hi THEN hi ELSE y

\* lcd_encoder after the first if of _menu_edit_P
EditCursor ==
    IF lcd_draw_update # 0
    THEN Clamp(lcd_encoder, menu_data.minEditValue, menu_data.maxEditValue)
    ELSE lcd_encoder

\* what *((T)(_md->editValue)) = lcd_encoder can leave in the edited
\* variables: the store into the target, or, through a pointer that is no
\* target's address (the zeroed record), a store that hits any one of them
\* or none
EditWrites ==
    IF menu_data.editValue \in Targets
    THEN {[mem EXCEPT ![menu_data.editValue] = Store(menu_menu, EditCursor)]}
    ELSE {mem} \cup {[mem EXCEPT ![a] = Store(menu_menu, EditCursor)] : a \in Targets}

\* _menu_edit_P<T>, the screen function of the editor; clicked is LCD_CLICKED
menu_edit_P ==
    \E clicked \in BOOLEAN :
        LET s == [Snapshot EXCEPT !.lcd_encoder = EditCursor]
            t == IF clicked THEN back_no_reset(s) ELSE s
        IN  /\ menu_menu \in Editors
            /\ Between([op |-> "edit", clicked |-> clicked, v |-> EditCursor,
                        screen |-> menu_menu, session |-> session])
            /\ Assign(t) /\ KeepSession(t) /\ Quiet
            /\ mem' \in IF clicked THEN EditWrites ELSE {mem}
            /\ UNCHANGED <<pc, menu_line, menu_item, menu_row, menu_top, menu_clicked,
                           lcd_draw_update, lcd_button_pressed, lcd_update_enabled,
                           ncalls>>

NextMenu ==
    \/ call_menu_goto
    \/ call_menu_back
    \/ input_encoder
    \/ lcd_update_enable
    \/ lcd_update_done
    \/ MENU_BEGIN
    \/ menu_item_dummy
    \/ menu_item_text_P
    \/ menu_item_submenu_P
    \/ menu_item_back_P
    \/ menu_item_function_P
    \/ menu_item_function_P_par
    \/ function_returns
    \/ menu_item_gcode_P
    \/ menu_item_edit_P
    \/ MENU_END
    \/ menu_edit_P

SpecMenu == Init /\ [][NextMenu]_vars

\* the render loop over a stack that callers of menu_submenu have built, up
\* to its capacity, and with screens opened over the editor
NextFull ==
    \/ build_stack
    \/ call_menu_submenu
    \/ call_menu_back
    \/ MENU_BEGIN
    \/ menu_item_dummy
    \/ menu_item_submenu_P
    \/ menu_item_edit_P
    \/ MENU_END
    \/ menu_edit_P

SpecFull == Init /\ [][NextFull]_vars

\* ------------------------------------------------------------------------
\* Claims on the navigation interface (checked under Spec)
\* ------------------------------------------------------------------------
Current == [Snapshot EXCEPT !.quick_feedback = pre.quick_feedback]

\* C1: menu_goto with the screen that is already current changes nothing
\* (screen, cursor, scratch, stack, depth) and issues no feedback, whatever
\* the flags are; with another screen it makes that screen current, sets the
\* cursor to the start value, zeroes the scratch exactly when reset is
\* requested and issues feedback exactly when feedback is requested.
C1_GotoContract ==
    last.op = "goto" =>
        IF last.menu = pre.menu_menu
        THEN Current = pre /\ ~quick_feedback
        ELSE /\ menu_menu = last.menu
             /\ lcd_encoder = last.encoder
             /\ menu_data = (IF last.reset THEN ZeroData ELSE pre.menu_data)
             /\ quick_feedback = last.feedback
             /\ menu_stack = pre.menu_stack
             /\ menu_depth = pre.menu_depth

\* a goto to the current screen that asks for reset and feedback, with a
\* scratch that is not zero and a start cursor other than the cursor
C1_Witness ==
    /\ last.op = "goto"
    /\ last.menu = pre.menu_menu
    /\ last.reset /\ last.feedback
    /\ pre.menu_data # ZeroData
    /\ last.encoder # pre.lcd_encoder

\* C2: menu_submenu and menu_submenu_no_reset called at depth MENU_DEPTH_MAX
\* leave the stack frames, the depth, the cursor and the current screen
\* unchanged.
C2_SubmenuAtCapacity ==
    (last.op \in {"submenu", "submenu_no_reset"} /\ pre.menu_depth = MENU_DEPTH_MAX) =>
        /\ menu_stack = pre.menu_stack
        /\ menu_depth = pre.menu_depth
        /\ lcd_encoder = pre.lcd_encoder
        /\ menu_menu = pre.menu_menu

\* a request for another screen made at full depth
C2_Witness ==
    /\ last.op = "submenu"
    /\ pre.menu_depth = MENU_DEPTH_MAX
    /\ last.menu # pre.menu_menu

\* C3: the stack depth stays within 0..MENU_DEPTH_MAX.
C3_DepthInRange == menu_depth \in 0..MENU_DEPTH_MAX

\* the depth is at the capacity after the non-resetting push was refused
C3_Witness ==
    /\ menu_depth = MENU_DEPTH_MAX
    /\ last.op = "submenu_no_reset"
    /\ pre.menu_depth = MENU_DEPTH_MAX

ClampedDepth == IF pre.menu_depth > last.n THEN pre.menu_depth - last.n ELSE 0

\* C4 as claimed: after back(n) from depth d the depth is max(d-n, 0), the
\* current screen is the one saved in the frame at that depth, the cursor is
\* the cursor saved in that frame and the scratch is all zero.
C4_Original ==
    last.op = "back" =>
        /\ menu_depth = ClampedDepth
        /\ menu_depth < MENU_DEPTH_MAX
        /\ menu_menu = menu_stack[menu_depth].menu
        /\ lcd_encoder = menu_stack[menu_depth].position
        /\ menu_data = ZeroData

\* C4 amended: after back(n) from depth d the depth is max(d-n, 0) and the
\* stack frames are untouched; if the frame at that depth holds a screen
\* other than the current one, that screen becomes current, the cursor is
\* the cursor saved in the frame and the scratch is zero; if it holds the
\* current screen, the screen, the cursor and the scratch stay as they were.
\* (At depth MENU_DEPTH_MAX there is no frame: back(0) at full depth reads
\* past the array and only the depth is stated.)
C4_BackRestores ==
    last.op = "back" =>
        /\ menu_depth = ClampedDepth
        /\ menu_stack = pre.menu_stack
        /\ menu_depth < MENU_DEPTH_MAX =>
              IF menu_stack[menu_depth].menu # pre.menu_menu
              THEN /\ menu_menu = menu_stack[menu_depth].menu
                   /\ lcd_encoder = menu_stack[menu_depth].position
                   /\ menu_data = ZeroData
              ELSE /\ menu_menu = pre.menu_menu
                   /\ lcd_encoder = pre.lcd_encoder
                   /\ menu_data = pre.menu_data

\* back(2) from depth 3 onto a frame pushed by another screen, with a cursor
\* moved since and a scratch in use
C4_Witness ==
    /\ last.op = "back" /\ last.n = 2
    /\ pre.menu_depth = 3
    /\ menu_stack[1].menu # pre.menu_menu
    /\ menu_stack[1].position # pre.lcd_encoder
    /\ pre.menu_data # ZeroData

\* C6 as claimed: menu_submenu and menu_submenu_no_reset called with the
\* screen that is already current leave the stack content and the depth
\* unchanged.
C6_Original ==
    (last.op \in {"submenu", "submenu_no_reset"} /\ last.menu = pre.menu_menu) =>
        /\ menu_stack = pre.menu_stack
        /\ menu_depth = pre.menu_depth

\* ------------------------------------------------------------------------
\* Claims on the item primitives and the numeric editor
\* ------------------------------------------------------------------------

\* a submenu item was activated on a screen R below capacity, with a target
\* other than R
SubmenuActivation(o, before) ==
    /\ o.op = "submenu_item"
    /\ o.ret = 1
    /\ before.menu_depth < MENU_DEPTH_MAX
    /\ o.arg # before.menu_menu

\* C5: activating a submenu item on screen R with cursor c, below capacity
\* and with a target S other than R, pushes {R, c}, makes S current, sets the
\* cursor to 0 and zeroes the scratch; the back() issued next makes R current
\* again with cursor c and the depth before the activation.
C5_SubmenuItemRoundTrip ==
    /\ SubmenuActivation(last, pre) =>
          /\ pre.lcd_encoder = last.slot
          /\ menu_depth = pre.menu_depth + 1
          /\ menu_stack[pre.menu_depth] =
                 [menu |-> pre.menu_menu, position |-> pre.lcd_encoder]
          /\ menu_menu = last.arg
          /\ lcd_encoder = 0
          /\ menu_data = ZeroData
    /\ (last.op = "back" /\ SubmenuActivation(last.prev, last.before)) =>
          /\ menu_menu = last.before.menu_menu
          /\ lcd_encoder = last.before.lcd_encoder
          /\ menu_depth = last.before.menu_depth

\* the back() issued right after the activation of a submenu item at slot 1:
\* the screen and the cursor 1 are back
C5_Witness ==
    /\ last.op = "back"
    /\ SubmenuActivation(last.prev, last.before)
    /\ last.before.lcd_encoder = 1
    /\ menu_menu = last.before.menu_menu
    /\ lcd_encoder = 1
    /\ pre.menu_depth = menu_depth + 1

C8_Original ==
    (last.op = "edit" /\ last.clicked /\ last.session.active) =>
        /\ mem[last.session.pval] = last.v
        /\ menu_depth = pre.menu_depth - 1
        /\ menu_depth = last.session.depth
        /\ menu_menu = last.session.parent
        /\ lcd_encoder = last.session.cursor
        /\ menu_data = pre.menu_data

\* C9 as stated: every value the editor writes to its target lies in
\* [min, max] of the active edit record.
C9_Original ==
    (last.op = "edit" /\ last.clicked /\ pre.menu_data.editValue \in Targets) =>
        /\ mem[pre.menu_data.editValue] >= pre.menu_data.minEditValue
        /\ mem[pre.menu_data.editValue] <= pre.menu_data.maxEditValue

\* ------------------------------------------------------------------------
\* Timer.h
\* ------------------------------------------------------------------------
TimerState == [m_isRunning |-> m_isRunning, m_started |-> m_started]

\* a call on the timer: its argument, its result and the counter value it read
TimerOp(name, msPeriod, ret) ==
    [op |-> name, msPeriod |-> msPeriod, ret |-> ret, now |-> millis]

TimerFrame == UNCHANGED <<menu_menu, lcd_encoder, menu_data, menu_stack, menu_depth,
                          quick_feedback, nops, framevars, eeprom, cpu>>

\* Timer::start
Timer_start ==
    /\ m_started' = millis
    /\ m_isRunning' = TRUE
    /\ hist' = NoHist
    /\ last' = TimerOp("start", 0, FALSE)
    /\ pre' = TimerState
    /\ UNCHANGED millis
    /\ TimerFrame

\* Timer::stop
Timer_stop ==
    /\ m_isRunning' = FALSE
    /\ last' = TimerOp("stop", 0, FALSE)
    /\ pre' = TimerState
    /\ UNCHANGED <<m_started, millis, hist>>
    /\ TimerFrame

\* mutant: the sum is not reduced to the width of T
Deadline_no_wrap(msPeriod) == m_started + msPeriod

\* m_started + msPeriod in the arithmetic of T (on the AVR target the operands
\* of an unsigned short sum are promoted to the 16-bit unsigned int)
Deadline(msPeriod) == (m_started + msPeriod) % Modulus

\* the value Timer::expired returns on a running timer
Expired(msPeriod, now) ==
    IF m_started <= Deadline(msPeriod)
    THEN (now >= Deadline(msPeriod)) \/ (now < m_started)
    ELSE (now >= Deadline(msPeriod)) /\ (now < m_started)

\* mutant: an expired timer keeps running
RunningAfter_kept(expired) == m_isRunning

\* if (expired) m_isRunning = false;
RunningAfter(expired) == IF expired THEN FALSE ELSE m_isRunning

\* a true result counted, up to 2 (which stands for "more than once")
Counted(expired) ==
    [hist EXCEPT !.trues = IF expired /\ @ < 2 THEN @ + 1 ELSE @]

\* Timer::expired
Timer_expired ==
    \E msPeriod \in 0..(Modulus - 1) :
        LET expired == IF ~m_isRunning THEN FALSE ELSE Expired(msPeriod, millis) IN
        /\ m_isRunning' = RunningAfter(expired)
        /\ hist' = Counted(expired)
        /\ last' = TimerOp("expired", msPeriod, expired)
        /\ pre' = TimerState
        /\ UNCHANGED <<m_started, millis>>
        /\ TimerFrame

\* the millisecond counter advances and wraps at the width of T
millis_tick ==
    /\ millis' = (millis + 1) % Modulus
    /\ UNCHANGED <<m_isRunning, m_started, hist, last, pre>>
    /\ TimerFrame

NextTimer ==
    \/ Timer_start
    \/ Timer_stop
    \/ Timer_expired
    \/ millis_tick

SpecTimer == Init /\ [][NextTimer]_vars

\* ticks elapsed from the start to now, modulo the counter width
Elapsed(started, now) == (now - started + Modulus) % Modulus

\* C10: on a running timer expired(period) returns true exactly when
\* (now - started) mod 2^W >= period, for every started, period and now.
C10_ExpiredIffElapsed ==
    (last.op = "expired" /\ pre.m_isRunning) =>
        (last.ret <=> (Elapsed(pre.m_started, last.now) >= last.msPeriod))

\* started at the counter's maximum, the deadline wrapped past it, and now
\* exactly at the wrapped deadline
C10_Witness ==
    /\ last.op = "expired" /\ pre.m_isRunning
    /\ pre.m_started = Modulus - 1
    /\ last.msPeriod = 2
    /\ last.now = 1
    /\ last.ret

\* C11: the timer is one-shot. Between two start() calls expired() returns
\* true at most once; after a true result the timer is not running and
\* expired() returns false until the next start(); expired() on a timer that
\* is not running returns false and changes neither running nor started; a
\* false result on a running timer leaves it running.
C11_OneShot ==
    /\ hist.trues <= 1
    /\ hist.trues = 1 => ~m_isRunning
    /\ last.op = "expired" =>
          /\ m_started = pre.m_started
          /\ last.ret => (pre.m_isRunning /\ ~m_isRunning)
          /\ ~pre.m_isRunning => (~last.ret /\ ~m_isRunning)
          /\ (pre.m_isRunning /\ ~last.ret) => m_isRunning

\* after the true result of this cycle, expired(0) at a later counter value
\* returns false
C11_Witness ==
    /\ last.op = "expired"
    /\ hist.trues = 1
    /\ ~pre.m_isRunning
    /\ last.msPeriod = 0
    /\ last.now # pre.m_started
    /\ ~last.ret

\* ------------------------------------------------------------------------
\* Timer.h: a caller that arms the timer and polls it with one period
\* ------------------------------------------------------------------------

\* a tick counted up to Modulus
Sat(x) == IF x < Modulus THEN x + 1 ELSE x

\* mutant: the caller lets two more ticks pass between its calls
MaxGap_two_more(msPeriod) == (Modulus - 1) - msPeriod + 2

\* "must be called at least each (T maximum value - msPeriod) milliseconds"
MaxGap(msPeriod) == (Modulus - 1) - msPeriod

\* the caller arms the timer and chooses the period it will poll with
Poll_start ==
    \E msPeriod \in 0..(Modulus - 1) :
        /\ m_started' = millis
        /\ m_isRunning' = TRUE
        /\ hist' = [trues |-> 0, period |-> msPeriod, ticks |-> 0, gap |-> 0]
        /\ last' = [op |-> "arm", msPeriod |-> msPeriod, ret |-> FALSE, now |-> millis,
                    ticks |-> 0]
        /\ pre' = TimerState
        /\ UNCHANGED millis
        /\ TimerFrame

\* the caller polls: Timer::expired with the period of this cycle
Poll_expired ==
    LET expired == IF ~m_isRunning THEN FALSE ELSE Expired(hist.period, millis) IN
    /\ last.op # "none"
    /\ m_isRunning' = RunningAfter(expired)
    /\ hist' = [Counted(expired) EXCEPT !.gap = 0]
    /\ last' = [op |-> "poll", msPeriod |-> hist.period, ret |-> expired, now |-> millis,
                ticks |-> hist.ticks]
    /\ pre' = TimerState
    /\ UNCHANGED <<m_started, millis>>
    /\ TimerFrame

\* the counter advances; while the timer is armed the caller does not let
\* more than MaxGap ticks pass without a call
Poll_tick ==
    /\ m_isRunning => hist.gap < MaxGap(hist.period)
    /\ millis' = (millis + 1) % Modulus
    /\ hist' = [hist EXCEPT !.ticks = Sat(@), !.gap = Sat(@)]
    /\ UNCHANGED <<m_isRunning, m_started, last, pre>>
    /\ TimerFrame

NextPoll ==
    \/ Poll_start
    \/ Poll_expired
    \/ Poll_tick

SpecPoll == Init /\ [][NextPoll]_vars

\* C12: a caller that lets at most (counter maximum - period) ticks pass
\* between start() and its first expired(period) call and between two calls
\* gets true from the first call made when at least period ticks have
\* elapsed since start(), also when the counter has wrapped in between.
C12_FirstExpiryCaught ==
    (last.op = "poll" /\ pre.m_isRunning /\ last.ticks >= last.msPeriod) => last.ret

\* the counter wrapped between start() and the call that caught the expiry,
\* and an earlier call of the cycle had returned false
C12_Witness ==
    /\ last.op = "poll"
    /\ pre.m_isRunning
    /\ last.ret
    /\ last.now < pre.m_started
    /\ last.ticks > MaxGap(last.msPeriod)
    /\ last.msPeriod > 1

\* ------------------------------------------------------------------------
\* Claims on the render loop at the limits
\* ------------------------------------------------------------------------

\* C13 as stated: a submenu item or an edit item activated while the stack
\* is at capacity raises no audible feedback and leaves the stack, the
\* current screen, the cursor and the scratch as they are.
C13_Original ==
    (/\ last.op \in {"submenu_item", "edit_item"}
     /\ last.ret = 1
     /\ pre.menu_depth = MENU_DEPTH_MAX) =>
        /\ ~beeper_feedback
        /\ ~quick_feedback
        /\ menu_stack = pre.menu_stack
        /\ menu_depth = pre.menu_depth
        /\ menu_menu = pre.menu_menu
        /\ lcd_encoder = pre.lcd_encoder
        /\ menu_data = pre.menu_data

\* C14 as stated: when menu_start finds the cursor below zero, or menu_end
\* finds it at or past the number of slots assigned in the pass, the cursor
\* is clamped (to 0, to the last assigned slot), the error tone sounds and
\* the redraw flag is set.
C14_Original ==
    /\ (last.op = "menu_start" /\ pre.lcd_encoder < 0) =>
          /\ lcd_encoder = 0
          /\ beeper_tone
          /\ lcd_draw_update # 0
    /\ (last.op = "menu_end" /\ pre.lcd_encoder >= last.slot) =>
          /\ lcd_encoder = last.slot - 1
          /\ beeper_tone
          /\ lcd_draw_update # 0

\* C15 as stated: after a complete frame (menu_start, the passes of a
\* screen that assigns N slots, the last menu_end) the cursor is at least 0
\* and less than N, and it is 0 when no slot was assigned.
C15_Original ==
    (last.op = "menu_end" /\ pc = "idle") =>
        /\ lcd_encoder >= 0
        /\ IF last.slot = 0 THEN lcd_encoder = 0 ELSE lcd_encoder < last.slot

FuncOps == {"function", "function_par"}

\* the activation test, on the values the primitive saw when it was called
WasActivated(o) == o.slot = o.line /\ o.clicked /\ o.v = o.slot

\* C16: an activated function item clears and consumes the latched click
\* before the callback starts, keeps lcd_update_enabled off while the
\* callback runs, and has it on and returns 1 when the callback has returned
\* or is null; a function item that is not activated calls nothing, leaves
\* the flag alone and returns 0.
C16_FunctionItem ==
    /\ pc = "callback" =>
          /\ last.op \in FuncOps
          /\ WasActivated(last)
          /\ last.arg # NullPtr
          /\ ~menu_clicked
          /\ click_consumed
          /\ ~lcd_update_enabled
    /\ (last.op \in FuncOps /\ WasActivated(last)) =>
          /\ last.ret = 1
          /\ ~menu_clicked
          /\ click_consumed
          /\ pc # "callback" => lcd_update_enabled
          /\ last.arg = NullPtr => pc # "callback"
    /\ (last.op \in FuncOps /\ ~WasActivated(last)) =>
          /\ last.ret = 0
          /\ pc # "callback"
          /\ ~click_consumed
          /\ menu_clicked = last.clicked
          /\ lcd_update_enabled = last.enabled

\* the callback of a function item runs, the display updates having been
\* on when the item was activated
C16_Witness ==
    /\ pc = "callback"
    /\ last.op = "function_par"
    /\ last.enabled
    /\ ~lcd_update_enabled
    /\ last.slot = 1

\* ------------------------------------------------------------------------
\* eeprom.cpp: eeprom_init
\* ------------------------------------------------------------------------

\* values the rest of the firmware stores: a count, and for the words the
\* two values with one byte of 0xFF
StoredBytes == {42}
StoredWords == {42, 255, 65280}
StoredChars == {65}

EepromFrame == UNCHANGED <<menu_menu, lcd_encoder, menu_data, menu_stack, menu_depth,
                           quick_feedback, timervars, framevars, cpu>>

\* the rest of the firmware writes one field
eeprom_store ==
    /\ nops < MaxWrites
    /\ nops' = nops + 1
    /\ pre' = eeprom
    /\ \/ \E f \in ByteFields, x \in StoredBytes :
             /\ eeprom' = [eeprom EXCEPT !.byte[f] = x]
             /\ last' = [op |-> "eeprom_write_byte", field |-> f, value |-> x]
       \/ \E f \in WordFields, x \in StoredWords :
             /\ eeprom' = [eeprom EXCEPT !.word[f] = x]
             /\ last' = [op |-> "eeprom_write_word", field |-> f, value |-> x]
       \/ \E i \in SheetIndex, j \in NameIndex, x \in StoredChars :
             /\ eeprom' = [eeprom EXCEPT !.name[i][j] = x]
             /\ last' = [op |-> "eeprom_write_char", field |-> <<i, j>>, value |-> x]
    /\ EepromFrame

\* if (eeprom_read_byte(f) == 0xff) eeprom_write_byte(f, 0), for each field
InitBytes(e) ==
    [e EXCEPT !.byte = [f \in ByteFields |-> IF e.byte[f] = 255 THEN 0 ELSE e.byte[f]]]

\* if (eeprom_read_word(f) == 0xffff) eeprom_write_word(f, 0), for each field
InitWords(e) ==
    [e EXCEPT !.word = [f \in WordFields |-> IF e.word[f] = 65535 THEN 0 ELSE e.word[f]]]

\* mutant: a name counts as uninitialized when its first byte is erased
is_uninitialized_first_byte(e, i, j) == e.name[i][0] = 255

\* the flag is_uninitialized after the inner loop has looked at the bytes
\* j, j + 1, ... of the name of sheet i
RECURSIVE is_uninitialized(_, _, _)
is_uninitialized(e, i, j) ==
    IF j >= NameLen
    THEN TRUE
    ELSE (e.name[i][j] = 255) /\ is_uninitialized(e, i, j + 1)

\* the loop over the sheets, from sheet i on
RECURSIVE InitNames(_, _)
InitNames(e, i) ==
    IF i >= MaxSheets
    THEN e
    ELSE InitNames(IF is_uninitialized(e, i, 0)
                   THEN [e EXCEPT !.name[i][0] = ToUint8(i + 49),
                                  !.name[i][1] = 0]
                   ELSE e,
                   i + 1)

\* eeprom_init(), as the EEPROM it leaves
EepromInit(e) == InitNames(InitWords(InitBytes(e)), 0)

eeprom_init ==
    /\ eeprom' = EepromInit(eeprom)
    /\ last' = [op |-> "eeprom_init"]
    /\ pre' = eeprom
    /\ UNCHANGED nops
    /\ EepromFrame

NextEeprom ==
    \/ eeprom_store
    \/ eeprom_init

SpecEeprom == Init /\ [][NextEeprom]_vars

\* the name eeprom_init gives to sheet i: the digit i + 1, a zero byte, and
\* the erased bytes behind them
DefaultName(i) == [j \in NameIndex |-> IF j = 0 THEN 49 + i ELSE IF j = 1 THEN 0 ELSE 255]

\* C17: eeprom_init rewrites a field exactly when it is entirely erased. A
\* counter or the active sheet that read as all bits set ends as 0 and any
\* other value is kept; a sheet name of which every byte read as 0xFF ends
\* as the default name, a name with a byte that is not 0xFF is kept; a
\* second run changes nothing.
C17_InitOnlyErased ==
    last.op = "eeprom_init" =>
        /\ \A f \in ByteFields :
              eeprom.byte[f] = IF pre.byte[f] = 255 THEN 0 ELSE pre.byte[f]
        /\ \A f \in WordFields :
              eeprom.word[f] = IF pre.word[f] = 65535 THEN 0 ELSE pre.word[f]
        /\ \A i \in SheetIndex :
              eeprom.name[i] = IF \A j \in NameIndex : pre.name[i][j] = 255
                               THEN DefaultName(i)
                               ELSE pre.name[i]
        /\ EepromInit(eeprom) = eeprom

\* a run over a word with one byte erased, a name with only its first byte
\* erased (both kept), a stored count, and an erased name (defaulted)
C17_Witness ==
    /\ last.op = "eeprom_init"
    /\ \E f \in WordFields : pre.word[f] = 65280 /\ eeprom.word[f] = 65280
    /\ pre.name[0] = [j \in NameIndex |-> IF j = 1 THEN 65 ELSE 255]
    /\ eeprom.name[0] = pre.name[0]
    /\ pre.name[1][0] = 255 /\ eeprom.name[1] = DefaultName(1)
    /\ pre.byte["active_sheet"] = 255 /\ eeprom.byte["active_sheet"] = 0

\* C18 as stated: an edit target is written only in an editor frame that
\* sees a click, through the address given to the edit-item activation that
\* entered the editor shown; leaving the editor by back or goto writes no
\* target.
C18_Original ==
    /\ mem # pre.mem => (last.op = "edit" /\ last.clicked)
    /\ (last.op = "edit" /\ last.clicked) =>
          /\ last.session.active
          /\ pre.menu_data.editValue = last.session.pval
          /\ \A a \in Targets \ {last.session.pval} : mem[a] = pre.mem[a]
    /\ (last.op \in {"back", "goto"} /\ pre.menu_menu \in Editors) => mem = pre.mem

\* ------------------------------------------------------------------------
\* menu.cpp: menu_goto statement by statement, against the input-sampling
\* interrupt (SpecIrq). cpu.I is the global interrupt flag, cpu.at the
\* statement of menu_goto that runs next ("out": not in menu_goto), the
\* other fields of cpu are the arguments of the call in progress and the
\* encoder position at the call (entry).
\* ------------------------------------------------------------------------
IrqFrame == UNCHANGED <<menu_stack, menu_depth, nops, timervars, framevars, eeprom>>

GotoPositions == {"test", "set_menu", "set_encoder", "sei", "sei_else", "rest"}

\* from the statement after asm("cli") up to and including asm("sei")
CriticalPositions == {"test", "set_menu", "set_encoder", "sei", "sei_else"}

IrqOp(name) == [op |-> name, at |-> cpu.at, I |-> cpu.I]

\* mutant: asm("cli") leaves the interrupts enabled
IAfterCli_enabled == TRUE

\* the interrupt flag after asm("cli")
IAfterCli == FALSE

\* the caller disables or enables the interrupts outside menu_goto
caller_cli_sei ==
    /\ cpu.at = "out"
    /\ cpu' = [cpu EXCEPT !.I = ~@]
    /\ last' = IrqOp("caller")
    /\ pre' = Snapshot
    /\ UNCHANGED <<menu_menu, lcd_encoder, menu_data, quick_feedback>>
    /\ IrqFrame

\* the input-sampling interrupt writes the encoder position; it is served
\* between two statements when the interrupt flag is set
encoder_isr ==
    \E e \in CursorVals :
        /\ cpu.I
        /\ e # lcd_encoder
        /\ lcd_encoder' = e
        /\ last' = IrqOp("isr")
        /\ pre' = Snapshot
        /\ UNCHANGED <<menu_menu, menu_data, quick_feedback, cpu>>
        /\ IrqFrame

\* the screen shown stores its record in the scratch union
irq_menu_data_write ==
    /\ cpu.at = "out"
    /\ menu_data # ScreenData
    /\ menu_data' = ScreenData
    /\ quick_feedback' = FALSE
    /\ last' = IrqOp("data")
    /\ pre' = Snapshot
    /\ UNCHANGED <<menu_menu, lcd_encoder, cpu>>
    /\ IrqFrame

\* the call and asm("cli")
goto_cli ==
    \E menu \in UserScreens, encoder \in CursorVals, feedback \in BOOLEAN,
       reset_menu_state \in BOOLEAN :
        /\ cpu.at = "out"
        /\ cpu' = [I |-> IAfterCli, at |-> "test", menu |-> menu, encoder |-> encoder,
                   feedback |-> feedback, reset |-> reset_menu_state,
                   entry |-> lcd_encoder]
        /\ quick_feedback' = FALSE
        /\ last' = IrqOp("goto_cli")
        /\ pre' = Snapshot
        /\ UNCHANGED <<menu_menu, lcd_encoder, menu_data>>
        /\ IrqFrame

\* if (menu_menu != menu)
goto_test ==
    /\ cpu.at = "test"
    /\ cpu' = [cpu EXCEPT !.at = IF menu_menu # cpu.menu THEN "set_menu" ELSE "sei_else"]
    /\ last' = IrqOp("goto_test")
    /\ pre' = Snapshot
    /\ UNCHANGED <<menu_menu, lcd_encoder, menu_data, quick_feedback>>
    /\ IrqFrame

\* menu_menu = menu
goto_set_menu ==
    /\ cpu.at = "set_menu"
    /\ menu_menu' = cpu.menu
    /\ cpu' = [cpu EXCEPT !.at = "set_encoder"]
    /\ last' = IrqOp("goto_set_menu")
    /\ pre' = Snapshot
    /\ UNCHANGED <<lcd_encoder, menu_data, quick_feedback>>
    /\ IrqFrame

\* lcd_encoder = encoder
goto_set_encoder ==
    /\ cpu.at = "set_encoder"
    /\ lcd_encoder' = cpu.encoder
    /\ cpu' = [cpu EXCEPT !.at = "sei"]
    /\ last' = IrqOp("goto_set_encoder")
    /\ pre' = Snapshot
    /\ UNCHANGED <<menu_menu, menu_data, quick_feedback>>
    /\ IrqFrame

\* asm("sei") of the transition path
goto_sei ==
    /\ cpu.at = "sei"
    /\ cpu' = [cpu EXCEPT !.I = TRUE, !.at = "rest"]
    /\ last' = IrqOp("goto_sei")
    /\ pre' = Snapshot
    /\ UNCHANGED <<menu_menu, lcd_encoder, menu_data, quick_feedback>>
    /\ IrqFrame

\* the memset, lcd_quick_feedback() and the return of the transition path
goto_rest ==
    /\ cpu.at = "rest"
    /\ menu_data' = IF cpu.reset THEN ZeroData ELSE menu_data
    /\ quick_feedback' = cpu.feedback
    /\ cpu' = [cpu EXCEPT !.at = "out"]
    /\ last' = IrqOp("goto_rest")
    /\ pre' = Snapshot
    /\ UNCHANGED <<menu_menu, lcd_encoder>>
    /\ IrqFrame

\* asm("sei") and the return of the no-op path
goto_sei_else ==
    /\ cpu.at = "sei_else"
    /\ cpu' = [cpu EXCEPT !.I = TRUE, !.at = "out"]
    /\ last' = IrqOp("goto_sei_else")
    /\ pre' = Snapshot
    /\ UNCHANGED <<menu_menu, lcd_encoder, menu_data, quick_feedback>>
    /\ IrqFrame

NextIrq ==
    \/ caller_cli_sei
    \/ encoder_isr
    \/ irq_menu_data_write
    \/ goto_cli
    \/ goto_test
    \/ goto_set_menu
    \/ goto_set_encoder
    \/ goto_sei
    \/ goto_sei_else
    \/ goto_rest

SpecIrq == Init /\ [][NextIrq]_vars

\* C19: no interrupt is served from the statement after asm("cli") up to
\* asm("sei"): the interrupts are disabled at each of these statements and the
\* input sampling never writes the cursor there; when asm("sei") of the
\* transition path has run, the screen and the cursor are the requested ones;
\* when menu_goto returns, on either path, the interrupts are enabled.
C19_GotoAtomic ==
    /\ cpu.at \in CriticalPositions => ~cpu.I
    /\ last.op = "isr" => last.at \notin CriticalPositions
    /\ last.op = "goto_sei" =>
          (menu_menu = cpu.menu /\ lcd_encoder = cpu.encoder /\ cpu.I)
    /\ last.op \in {"goto_rest", "goto_sei_else"} => (cpu.at = "out" /\ cpu.I)
    /\ last.op = "goto_sei_else" => menu_menu = cpu.menu

\* a transition whose call found another cursor than the requested one has
\* left its critical section
C19_Witness ==
    /\ last.op = "goto_sei"
    /\ cpu.entry # cpu.encoder
    /\ lcd_encoder = cpu.encoder
    /\ menu_menu = "settings"

\* ------------------------------------------------------------------------
\* Claims on the indices of menu_stack (Spec)
\* ------------------------------------------------------------------------

\* the indices of menu_stack the last operation has read or written:
\* menu_submenu and menu_submenu_no_reset write menu_stack[menu_depth] before
\* the increment when they push, menu_back reads menu_stack[menu_depth] after
\* its subtraction, menu_back_no_reset reads it after its decrement
StackIndices ==
    CASE last.op \in {"submenu", "submenu_no_reset"} ->
             IF pre.menu_depth < MENU_DEPTH_MAX THEN {pre.menu_depth} ELSE {}
      [] last.op = "back" -> {menu_depth}
      [] last.op = "back_no_reset" ->
             IF pre.menu_depth > 0 THEN {menu_depth} ELSE {}
      [] OTHER -> {}

\* C20 as stated: every read and every write of menu_stack uses an index in
\* 0..MENU_DEPTH_MAX-1, whatever the sequence of menu_submenu,
\* menu_submenu_no_reset, menu_back(n) with n >= 0, menu_back_no_reset and
\* menu_goto.
C20_Original == StackIndices \subseteq 0..(MENU_DEPTH_MAX - 1)

\* ------------------------------------------------------------------------
\* Claims on the rows of the edit items (SpecMenu)
\* ------------------------------------------------------------------------

\* the row that follows from the item's arguments and the value of its
\* variable alone: " [off]" for the uint8_t item at or below its own min_val
OwnRow(it, chr, val) ==
    menu_draw_P(it.screen, chr, it.str, val,
                [editLabel |-> it.str, editValue |-> it.pval,
                 minEditValue |-> it.min_val, maxEditValue |-> it.max_val])

\* C21 as stated: the row an edit item prints in its list is determined by
\* the item's arguments and the value of its variable, whatever the scratch
\* holds (zeroes, or the record of a committed edit of another item); the
\* uint8_t item prints " [off]" exactly when the value is at or below its own
\* min_val.
C21_Original ==
    (last.op = "edit_item" /\ last.row.drawn) =>
        last.row = OwnRow(last.arg, last.row.chr, pre.mem[last.arg.pval])

====
